---- MODULE Spec2Model ----
(***************************************************************************)
(* Model of libp2p-broadcast: the per-connection Handler (handler.rs), the *)
(* length-prefixed frame codec (codec.rs) and the Message wire format      *)
(* (types.rs).                                                             *)
(*                                                                         *)
(* The Handler is driven by the swarm: on_behaviour_event (Send),          *)
(* on_connection_event and poll are never run concurrently.  poll is       *)
(* modelled step by step (pc), one step per loop iteration half: the       *)
(* Option::replace(Poisoned) that moves the state out, then the match arm  *)
(* that stores the next state.  The other handlers run only between two    *)
(* poll invocations (pc = "idle").                                         *)
(***************************************************************************)
EXTENDS Integers, Sequences, FiniteSets, TLC

\* ------------------------------------------------------------------ bounds

\* Number of Send commands the behaviour issues on the session.
MaxSends == 3

\* ------------------------------------------------------------------- state

VARIABLES
    inbound_substream,                \* Option<InboundSubstreamState>
    outbound_substream,               \* Option<OutboundSubstreamState>
    establishing_outbound_substream,  \* bool
    pending_messages,                 \* VecDeque<Message>, messages named by send order
    pc,                               \* position inside poll, "idle" between invocations
    taken,                            \* the state moved out by replace(Poisoned)
    poll_result,                      \* what the last poll invocation returned
    panicked,                         \* an assert!/unreachable! fired
    \* the environment and the observation of the session's effects
    requests_outstanding,             \* negotiation requests the transport has not answered
    requests_total,                   \* negotiation requests emitted so far
    sent,                             \* number of Send commands so far
    handed,                           \* messages passed to Sink::start_send, in call order
    written,                          \* messages for which start_send returned Ok
    lost,                             \* messages dropped by a failed poll_ready/start_send
    dropped,                          \* messages drained by on_dial_upgrade_error
    flushed,                          \* number of poll_flush calls that returned Ready(Ok)
    tx_events,                        \* number of HandlerEvent::Tx returned by poll
    last_io,                          \* the last stream operation polled and its outcome
    in_io,                            \* the last inbound stream operation of this invocation
    out_io                            \* the last outbound stream operation of this invocation

hvars == <<inbound_substream, outbound_substream, establishing_outbound_substream,
           pending_messages, pc, taken, poll_result, panicked,
           requests_outstanding, requests_total, sent, handed, written, lost,
           dropped, flushed, tx_events, last_io, in_io, out_io>>

\* The codec pipeline of one frame: a Message is serialised (to_bytes), parsed
\* back (from_bytes), framed (encode) onto the wire, delivered in chunks into
\* the read buffer and decoded from it.
VARIABLES
    max_size,     \* LengthPrefixedCodec::max_size
    original,     \* the Message being encoded
    bytes,        \* original.to_bytes()
    parsed,       \* Message::from_bytes(bytes)
    wire,         \* bytes written by the peer and not yet delivered
    src,          \* the read buffer handed to decode (BytesMut)
    decoded,      \* what the last decode call returned
    batch,        \* the Messages encoded onto the wire, in order
    received,     \* the Messages decode returned, in order
    cpc           \* position in the pipeline

cvars == <<max_size, original, bytes, parsed, wire, src, decoded, batch, received, cpc>>

vars == <<hvars, cvars>>

\* --------------------------------------------------------- substream states

None == [tag |-> "None"]
Poisoned == [tag |-> "Poisoned"]
WaitingInput == [tag |-> "WaitingInput"]
Closing == [tag |-> "Closing"]
WaitingOutput == [tag |-> "WaitingOutput"]
PendingSend(message) == [tag |-> "PendingSend", message |-> message]
PendingFlush == [tag |-> "PendingFlush"]

NoIo == [op |-> "none", res |-> "none"]
Io(op, res) == [op |-> op, res |-> res]

\* Handler::new
HandlerInit ==
    /\ inbound_substream = None
    /\ outbound_substream = None
    /\ establishing_outbound_substream = FALSE
    /\ pending_messages = <<>>
    /\ pc = "idle"
    /\ taken = None
    /\ poll_result = "none"
    /\ panicked = FALSE
    /\ requests_outstanding = 0
    /\ requests_total = 0
    /\ sent = 0
    /\ handed = <<>>
    /\ written = <<>>
    /\ lost = <<>>
    /\ dropped = <<>>
    /\ flushed = 0
    /\ tx_events = 0
    /\ last_io = NoIo
    /\ in_io = NoIo
    /\ out_io = NoIo

\* ------------------------------------------------- what poll hands back

\* `return Poll::Ready(..)` / the final `Poll::Pending`: the invocation ends.
\* HandlerEvent::Tx is counted here, wherever a return value carries it.
Return(result) ==
    /\ pc' = "idle"
    /\ poll_result' = result
    /\ tx_events' = tx_events + (IF result = "NotifyBehaviour_Tx" THEN 1 ELSE 0)

\* `continue`, or `break` out of the inbound loop: poll goes on at `next`.
Goto(next) ==
    /\ pc' = next
    /\ UNCHANGED <<poll_result, tx_events>>

\* ------------------------------------------------------ connection events

\* The inbound handler written like the outbound one: it asserts that no
\* inbound substream is held.
on_fully_negotiated_inbound_asserts_none ==
    /\ IF inbound_substream = None
       THEN inbound_substream' = WaitingInput /\ UNCHANGED panicked
       ELSE panicked' = TRUE /\ UNCHANGED inbound_substream
    /\ UNCHANGED <<outbound_substream, establishing_outbound_substream,
                   pending_messages>>

on_fully_negotiated_inbound ==
    /\ inbound_substream' = WaitingInput
    /\ UNCHANGED <<outbound_substream, establishing_outbound_substream,
                   pending_messages, panicked>>

on_fully_negotiated_outbound ==
    IF outbound_substream # None
    THEN \* assert!(self.outbound_substream.is_none(), ..)
         /\ panicked' = TRUE
         /\ UNCHANGED <<inbound_substream, outbound_substream,
                        establishing_outbound_substream, pending_messages>>
    ELSE /\ outbound_substream' = WaitingOutput
         /\ UNCHANGED <<inbound_substream, establishing_outbound_substream,
                        pending_messages, panicked>>

\* Mutant: the failure handler also clears the establishing flag.
on_dial_upgrade_error_resets_flag ==
    /\ pending_messages' = <<>>
    /\ establishing_outbound_substream' = FALSE
    /\ UNCHANGED <<inbound_substream, outbound_substream, panicked>>

\* Mutant: drain(..1) instead of drain(..): only the front message is dropped.
on_dial_upgrade_error_drains_one ==
    /\ pending_messages' = (IF pending_messages = <<>> THEN <<>> ELSE Tail(pending_messages))
    /\ UNCHANGED <<inbound_substream, outbound_substream,
                   establishing_outbound_substream, panicked>>

\* pending_messages.drain(..).count(): the queue is emptied, the count logged.
on_dial_upgrade_error ==
    /\ pending_messages' = <<>>
    /\ UNCHANGED <<inbound_substream, outbound_substream,
                   establishing_outbound_substream, panicked>>

\* Mutant: push_front instead of push_back.
on_behaviour_event_push_front(msg) ==
    /\ pending_messages' = <<msg>> \o pending_messages
    /\ UNCHANGED <<inbound_substream, outbound_substream,
                   establishing_outbound_substream, panicked>>

on_behaviour_event(msg) ==
    /\ pending_messages' = Append(pending_messages, msg)
    /\ UNCHANGED <<inbound_substream, outbound_substream,
                   establishing_outbound_substream, panicked>>

\* ------------------------------------------------------------------- poll

\* Mutant: the guard does not look at the establishing flag.
NeedOutboundSubstream_ignores_flag ==
    /\ pending_messages # <<>>
    /\ outbound_substream = None

\* The establishment condition without the look at the queue.
NeedOutboundSubstream_ignores_queue ==
    /\ outbound_substream = None
    /\ ~establishing_outbound_substream

\* "Determine if we need to create an outbound substream"
NeedOutboundSubstream ==
    /\ pending_messages # <<>>
    /\ outbound_substream = None
    /\ ~establishing_outbound_substream

\* Mutant: the request is returned without setting the establishing flag.
poll_request_forgets_flag ==
    /\ pending_messages # <<>>
    /\ outbound_substream = None
    /\ ~establishing_outbound_substream
    /\ Return("OutboundSubstreamRequest")
    /\ UNCHANGED <<inbound_substream, outbound_substream, pending_messages,
                   establishing_outbound_substream, panicked, taken>>

poll_request ==
    /\ NeedOutboundSubstream
    /\ establishing_outbound_substream' = TRUE
    /\ Return("OutboundSubstreamRequest")
    /\ UNCHANGED <<inbound_substream, outbound_substream, pending_messages,
                   panicked, taken>>

poll_enter ==
    /\ ~NeedOutboundSubstream
    /\ Goto("inbound_loop")
    /\ UNCHANGED <<inbound_substream, outbound_substream,
                   establishing_outbound_substream, pending_messages,
                   panicked, taken>>

\* self.inbound_substream.replace(InboundSubstreamState::Poisoned)
inbound_replace ==
    /\ taken' = inbound_substream
    /\ inbound_substream' = Poisoned
    /\ Goto("inbound_match")
    /\ UNCHANGED <<outbound_substream, establishing_outbound_substream,
                   pending_messages, panicked>>

\* The WaitingInput arm returning a received message without putting the
\* substream state back.
inbound_WaitingInput_returns_without_restore(r) ==
    /\ taken = WaitingInput
    /\ taken' = None
    /\ CASE r = "Message" -> /\ UNCHANGED inbound_substream
                             /\ Return("NotifyBehaviour_Rx")
         [] r = "Err"     -> /\ inbound_substream' = Closing
                             /\ Goto("outbound_loop")
         [] r = "Eof"     -> /\ inbound_substream' = Closing
                             /\ Goto("inbound_loop")
         [] r = "Pending" -> /\ inbound_substream' = WaitingInput
                             /\ Goto("outbound_loop")
    /\ UNCHANGED <<outbound_substream, establishing_outbound_substream,
                   pending_messages, panicked>>

\* Some(WaitingInput(substream)): r is what substream.poll_next_unpin(cx) gave.
inbound_WaitingInput(r) ==
    /\ taken = WaitingInput
    /\ taken' = None
    /\ CASE r = "Message" -> /\ inbound_substream' = WaitingInput
                             /\ Return("NotifyBehaviour_Rx")
         [] r = "Err"     -> /\ inbound_substream' = Closing
                             /\ Goto("outbound_loop")
         [] r = "Eof"     -> /\ inbound_substream' = Closing
                             /\ Goto("inbound_loop")
         [] r = "Pending" -> /\ inbound_substream' = WaitingInput
                             /\ Goto("outbound_loop")
    /\ UNCHANGED <<outbound_substream, establishing_outbound_substream,
                   pending_messages, panicked>>

\* Mutant: a failed close keeps the substream in Closing to be retried.
inbound_Closing_retries_on_error(r) ==
    /\ taken = Closing
    /\ taken' = None
    /\ inbound_substream' = (IF r = "Ok" THEN None ELSE Closing)
    /\ Goto("outbound_loop")
    /\ UNCHANGED <<outbound_substream, establishing_outbound_substream,
                   pending_messages, panicked>>

\* Some(Closing(substream)): r is what Sink::poll_close gave.
inbound_Closing(r) ==
    /\ taken = Closing
    /\ taken' = None
    /\ inbound_substream' = (IF r = "Pending" THEN Closing ELSE None)
    /\ Goto("outbound_loop")
    /\ UNCHANGED <<outbound_substream, establishing_outbound_substream,
                   pending_messages, panicked>>

\* None => { self.inbound_substream = None; break }
\* Some(Poisoned) => unreachable!(..)
inbound_None ==
    /\ taken \notin {WaitingInput, Closing}
    /\ taken' = None
    /\ IF taken = None
       THEN /\ inbound_substream' = None
            /\ Goto("outbound_loop")
            /\ UNCHANGED panicked
       ELSE /\ panicked' = TRUE
            /\ Goto("idle")
            /\ UNCHANGED inbound_substream
    /\ UNCHANGED <<outbound_substream, establishing_outbound_substream,
                   pending_messages>>

\* self.outbound_substream.replace(OutboundSubstreamState::Poisoned)
outbound_replace ==
    /\ taken' = outbound_substream
    /\ outbound_substream' = Poisoned
    /\ Goto("outbound_match")
    /\ UNCHANGED <<inbound_substream, establishing_outbound_substream,
                   pending_messages, panicked>>

\* The WaitingOutput arm reading the front of the queue and leaving it there.
outbound_WaitingOutput_peeks ==
    /\ taken = WaitingOutput
    /\ taken' = None
    /\ IF pending_messages # <<>>
       THEN /\ outbound_substream' = PendingSend(Head(pending_messages))
            /\ UNCHANGED pending_messages
            /\ Goto("outbound_loop")
       ELSE /\ outbound_substream' = WaitingOutput
            /\ UNCHANGED pending_messages
            /\ Return("Pending")
    /\ UNCHANGED <<inbound_substream, establishing_outbound_substream, panicked>>

\* Some(WaitingOutput(substream))
outbound_WaitingOutput ==
    /\ taken = WaitingOutput
    /\ taken' = None
    /\ IF pending_messages # <<>>
       THEN /\ outbound_substream' = PendingSend(Head(pending_messages))
            /\ pending_messages' = Tail(pending_messages)
            /\ Goto("outbound_loop")
       ELSE /\ outbound_substream' = WaitingOutput
            /\ UNCHANGED pending_messages
            /\ Return("Pending")
    /\ UNCHANGED <<inbound_substream, establishing_outbound_substream, panicked>>

\* Mutant: a failed poll_ready/start_send puts the message back at the front
\* of the queue.
outbound_PendingSend_requeues(ready, send) ==
    /\ taken.tag = "PendingSend"
    /\ taken' = None
    /\ CASE ready = "Ok" /\ send = "Ok"  -> /\ outbound_substream' = PendingFlush
                                            /\ UNCHANGED pending_messages
                                            /\ Goto("outbound_loop")
         [] ready = "Ok" /\ send = "Err" -> /\ outbound_substream' = None
                                            /\ pending_messages' = <<taken.message>> \o pending_messages
                                            /\ Return("Pending")
         [] ready = "Err"                -> /\ outbound_substream' = None
                                            /\ pending_messages' = <<taken.message>> \o pending_messages
                                            /\ Return("Pending")
         [] ready = "Pending"            -> /\ outbound_substream' = PendingSend(taken.message)
                                            /\ UNCHANGED pending_messages
                                            /\ Return("Pending")
    /\ UNCHANGED <<inbound_substream, establishing_outbound_substream, panicked>>

\* The PendingSend arm going back to WaitingOutput after start_send, with no
\* flush in between.
outbound_PendingSend_skips_flush(ready, send) ==
    /\ taken.tag = "PendingSend"
    /\ taken' = None
    /\ CASE ready = "Ok" /\ send = "Ok"  -> /\ outbound_substream' = WaitingOutput
                                            /\ Goto("outbound_loop")
         [] ready = "Ok" /\ send = "Err" -> /\ outbound_substream' = None
                                            /\ Return("Pending")
         [] ready = "Err"                -> /\ outbound_substream' = None
                                            /\ Return("Pending")
         [] ready = "Pending"            -> /\ outbound_substream' = PendingSend(taken.message)
                                            /\ Return("Pending")
    /\ UNCHANGED <<inbound_substream, establishing_outbound_substream,
                   pending_messages, panicked>>

\* Some(PendingSend(substream, message)): ready is what Sink::poll_ready gave,
\* send what Sink::start_send gave when it was called.
outbound_PendingSend(ready, send) ==
    /\ taken.tag = "PendingSend"
    /\ taken' = None
    /\ CASE ready = "Ok" /\ send = "Ok"  -> /\ outbound_substream' = PendingFlush
                                            /\ Goto("outbound_loop")
         [] ready = "Ok" /\ send = "Err" -> /\ outbound_substream' = None
                                            /\ Return("Pending")
         [] ready = "Err"                -> /\ outbound_substream' = None
                                            /\ Return("Pending")
         [] ready = "Pending"            -> /\ outbound_substream' = PendingSend(taken.message)
                                            /\ Return("Pending")
    /\ UNCHANGED <<inbound_substream, establishing_outbound_substream,
                   pending_messages, panicked>>

\* Some(PendingFlush(substream)): r is what Sink::poll_flush gave.
outbound_PendingFlush(r) ==
    /\ taken = PendingFlush
    /\ taken' = None
    /\ CASE r = "Ok"      -> /\ outbound_substream' = WaitingOutput
                             /\ Goto("outbound_loop")
         [] r = "Err"     -> /\ outbound_substream' = None
                             /\ Return("Pending")
         [] r = "Pending" -> /\ outbound_substream' = PendingFlush
                             /\ Return("Pending")
    /\ UNCHANGED <<inbound_substream, establishing_outbound_substream,
                   pending_messages, panicked>>

\* None => { self.outbound_substream = None; break }
\* Some(Poisoned) => unreachable!(..)
outbound_None ==
    /\ taken.tag \notin {"WaitingOutput", "PendingSend", "PendingFlush"}
    /\ taken' = None
    /\ IF taken = None
       THEN /\ outbound_substream' = None
            /\ Return("Pending")
            /\ UNCHANGED panicked
       ELSE /\ panicked' = TRUE
            /\ Goto("idle")
            /\ UNCHANGED outbound_substream
    /\ UNCHANGED <<inbound_substream, establishing_outbound_substream,
                   pending_messages>>

\* ---------------------------------------------- the session's environment

envvars == <<requests_outstanding, requests_total, sent>>
histvars == <<handed, written, lost, dropped, flushed>>
iovars == <<last_io, in_io, out_io>>

Idle == pc = "idle" /\ ~panicked

\* The behaviour sends the next message (messages are named 1, 2, .. in the
\* order they are Send-ed).
Send ==
    /\ Idle
    /\ sent < MaxSends
    /\ on_behaviour_event(sent + 1)
    /\ sent' = sent + 1
    /\ UNCHANGED <<pc, taken, poll_result, tx_events, requests_outstanding,
                   requests_total, histvars, iovars>>
    /\ UNCHANGED cvars

\* The remote opens a stream to us at any time.
FullyNegotiatedInbound ==
    /\ Idle
    /\ on_fully_negotiated_inbound
    /\ UNCHANGED <<pc, taken, poll_result, tx_events, envvars, histvars, iovars>>
    /\ UNCHANGED cvars

\* The transport answers an outstanding negotiation request with a stream.
FullyNegotiatedOutbound ==
    /\ Idle
    /\ requests_outstanding > 0
    /\ on_fully_negotiated_outbound
    /\ requests_outstanding' = requests_outstanding - 1
    /\ UNCHANGED <<pc, taken, poll_result, tx_events, requests_total, sent,
                   histvars, iovars>>
    /\ UNCHANGED cvars

\* The transport answers an outstanding negotiation request with a failure.
DialUpgradeError ==
    /\ Idle
    /\ requests_outstanding > 0
    /\ on_dial_upgrade_error
    /\ requests_outstanding' = requests_outstanding - 1
    /\ dropped' = dropped \o pending_messages
    /\ UNCHANGED <<pc, taken, poll_result, tx_events, requests_total, sent,
                   handed, written, lost, flushed, iovars>>
    /\ UNCHANGED cvars

\* A poll invocation starts with no stream operation attempted yet.
PollRequest ==
    /\ Idle
    /\ poll_request
    /\ requests_outstanding' = requests_outstanding + 1
    /\ requests_total' = requests_total + 1
    /\ in_io' = NoIo
    /\ out_io' = NoIo
    /\ UNCHANGED <<sent, histvars, last_io>>
    /\ UNCHANGED cvars

PollEnter ==
    /\ Idle
    /\ poll_enter
    /\ in_io' = NoIo
    /\ out_io' = NoIo
    /\ UNCHANGED <<envvars, histvars, last_io>>
    /\ UNCHANGED cvars

InboundReplace ==
    /\ pc = "inbound_loop"
    /\ inbound_replace
    /\ UNCHANGED <<envvars, histvars, iovars>>
    /\ UNCHANGED cvars

InboundWaitingInput ==
    /\ pc = "inbound_match"
    /\ \E r \in {"Message", "Err", "Eof", "Pending"} :
          /\ inbound_WaitingInput(r)
          /\ last_io' = Io("poll_next", r)
          /\ in_io' = Io("poll_next", r)
    /\ UNCHANGED <<envvars, histvars, out_io>>
    /\ UNCHANGED cvars

InboundClosing ==
    /\ pc = "inbound_match"
    /\ \E r \in {"Ok", "Err", "Pending"} :
          /\ inbound_Closing(r)
          /\ last_io' = Io("poll_close", r)
          /\ in_io' = Io("poll_close", r)
    /\ UNCHANGED <<envvars, histvars, out_io>>
    /\ UNCHANGED cvars

InboundNone ==
    /\ pc = "inbound_match"
    /\ inbound_None
    /\ UNCHANGED <<envvars, histvars, iovars>>
    /\ UNCHANGED cvars

OutboundReplace ==
    /\ pc = "outbound_loop"
    /\ outbound_replace
    /\ UNCHANGED <<envvars, histvars, iovars>>
    /\ UNCHANGED cvars

OutboundWaitingOutput ==
    /\ pc = "outbound_match"
    /\ outbound_WaitingOutput
    /\ UNCHANGED <<envvars, histvars, iovars>>
    /\ UNCHANGED cvars

\* The PendingSend arm with the stream answering poll_ready from Readys and
\* start_send from Sends.  start_send is called only after poll_ready
\* returned Ready(Ok(())).
PendingSendStep(Readys, Sends) ==
    /\ pc = "outbound_match"
    /\ \E ready \in Readys, send \in Sends \cup {"uncalled"} :
          /\ (send = "uncalled") <=> (ready # "Ok")
          /\ outbound_PendingSend(ready, send)
          /\ last_io' = (IF ready = "Ok" THEN Io("start_send", send)
                                         ELSE Io("poll_ready", ready))
          /\ out_io' = last_io'
          /\ handed' = (IF ready = "Ok" THEN Append(handed, taken.message) ELSE handed)
          /\ written' = (IF send = "Ok" THEN Append(written, taken.message) ELSE written)
          /\ lost' = (IF ready = "Err" \/ send = "Err"
                      THEN Append(lost, taken.message) ELSE lost)
    /\ UNCHANGED <<envvars, dropped, flushed, in_io>>
    /\ UNCHANGED cvars

OutboundPendingSend == PendingSendStep({"Ok", "Err", "Pending"}, {"Ok", "Err"})

\* The PendingFlush arm with the stream answering poll_flush from Results.
PendingFlushStep(Results) ==
    /\ pc = "outbound_match"
    /\ \E r \in Results :
          /\ outbound_PendingFlush(r)
          /\ last_io' = Io("poll_flush", r)
          /\ out_io' = Io("poll_flush", r)
          /\ flushed' = (IF r = "Ok" THEN flushed + 1 ELSE flushed)
    /\ UNCHANGED <<envvars, handed, written, lost, dropped, in_io>>
    /\ UNCHANGED cvars

OutboundPendingFlush == PendingFlushStep({"Ok", "Err", "Pending"})

OutboundNone ==
    /\ pc = "outbound_match"
    /\ outbound_None
    /\ UNCHANGED <<envvars, histvars, iovars>>
    /\ UNCHANGED cvars

\* ------------------------------------------------------- types.rs: Topic

MAX_TOPIC_LENGTH == 64

Zeros(n) == [i \in 1..n |-> 0]

\* Topic::new: the bytes are copied into a zeroed [u8; 64] and the length is
\* kept as a u8.  (A slice longer than 64 bytes panics on the copy.)
Topic_new(topic) ==
    IF Len(topic) > MAX_TOPIC_LENGTH
    THEN [panic |-> "range end index out of range"]
    ELSE [len |-> Len(topic) % 256,
          bytes |-> topic \o Zeros(MAX_TOPIC_LENGTH - Len(topic))]

\* AsRef<[u8]> / Deref for Topic: &self.bytes[..self.len]
as_ref(topic) == SubSeq(topic.bytes, 1, topic.len)

\* ----------------------------------------------------- types.rs: Message

Subscribe(topic) == [type |-> "Subscribe", topic |-> topic]
Broadcast(topic, payload) == [type |-> "Broadcast", topic |-> topic, payload |-> payload]
Unsubscribe(topic) == [type |-> "Unsubscribe", topic |-> topic]

Ok(value) == [ok |-> TRUE, value |-> value]
Err(error) == [ok |-> FALSE, error |-> error]

\* from_bytes with the catch-all arm of the type match returning a message.
from_bytes_accepts_reserved_code(b) ==
    IF b = <<>>
    THEN Err("empty message")
    ELSE LET topic_len == b[1] \div 4 IN
         IF Len(b) < topic_len + 1
         THEN Err("topic length out of range")
         ELSE LET topic == Topic_new(SubSeq(b, 2, topic_len + 1))
                  code == b[1] % 4
              IN  CASE code = 0 -> Ok(Subscribe(topic))
                    [] code = 2 -> Ok(Unsubscribe(topic))
                    [] code = 1 -> Ok(Broadcast(topic, SubSeq(b, topic_len + 2, Len(b))))
                    [] OTHER -> Ok(Unsubscribe(topic))

\* Message::from_bytes.  bytes[0] >> 2 is b[1] \div 4, bytes[0] & 0b11 is b[1] % 4.
from_bytes(b) ==
    IF b = <<>>
    THEN Err("empty message")
    ELSE LET topic_len == b[1] \div 4 IN
         IF Len(b) < topic_len + 1
         THEN Err("topic length out of range")
         ELSE LET topic == Topic_new(SubSeq(b, 2, topic_len + 1))
                  code == b[1] % 4
              IN  CASE code = 0 -> Ok(Subscribe(topic))
                    [] code = 2 -> Ok(Unsubscribe(topic))
                    [] code = 1 -> Ok(Broadcast(topic, SubSeq(b, topic_len + 2, Len(b))))
                    [] OTHER -> Err("invalid header")

\* The header byte with the topic length clamped to the six bits it has.
header_byte_clamps_length(topic_len, code) ==
    ((IF topic_len > 63 THEN 63 ELSE topic_len) * 4) + code

\* (topic.len() as u8) << 2 | code: the shift is done in 8 bits, the bits
\* shifted out are lost; the two low bits of the shifted value are zero, so
\* the bitwise or with a two-bit code adds it.
header_byte(topic_len, code) == (((topic_len % 256) * 4) % 256) + code

\* Mutant: the Unsubscribe header is written without its type code.
to_bytes_unsubscribe_without_code(m) ==
    CASE m.type = "Subscribe" ->
            <<header_byte(Len(as_ref(m.topic)), 0)>> \o as_ref(m.topic)
      [] m.type = "Unsubscribe" ->
            <<header_byte(Len(as_ref(m.topic)), 0)>> \o as_ref(m.topic)
      [] m.type = "Broadcast" ->
            <<header_byte(Len(as_ref(m.topic)), 1)>> \o as_ref(m.topic) \o m.payload

\* Message::to_bytes
to_bytes(m) ==
    CASE m.type = "Subscribe" ->
            <<header_byte(Len(as_ref(m.topic)), 0)>> \o as_ref(m.topic)
      [] m.type = "Unsubscribe" ->
            <<header_byte(Len(as_ref(m.topic)), 2)>> \o as_ref(m.topic)
      [] m.type = "Broadcast" ->
            <<header_byte(Len(as_ref(m.topic)), 1)>> \o as_ref(m.topic) \o m.payload

\* Message::len
Message_len(m) ==
    1 + Len(as_ref(m.topic)) + (IF m.type = "Broadcast" THEN Len(m.payload) ELSE 0)

\* ------------------------------------------------------------- codec.rs

\* k << s on a 64-bit word, for the shifts that stay within the word.
Shl(k, s) == IF k = 0 THEN 0 ELSE k * (2 ^ s)

\* unsigned_varint::decode::usize as called by decode: LEB128, little end
\* first, seven bits a byte, the high bit set on every byte but the last; at
\* most ten bytes; a multi-byte encoding ending in a zero byte is rejected.
\* i counts the bytes read so far, n is the value accumulated from them.
RECURSIVE varint_scan(_, _, _)
varint_scan(buf, i, n) ==
    IF i >= Len(buf)
    THEN [status |-> "Insufficient"]
    ELSE LET b == buf[i + 1]
             n2 == n + Shl(b % 128, 7 * i)
         IN  IF b < 128
             THEN IF b = 0 /\ i > 0
                  THEN [status |-> "NotMinimal"]
                  ELSE [status |-> "Ok", value |-> n2, used |-> i + 1]
             ELSE IF i = 9
                  THEN [status |-> "Overflow"]
                  ELSE varint_scan(buf, i + 1, n2)

varint_decode(buf) == varint_scan(buf, 0, 0)

\* unsigned_varint::encode::usize as called by encode.
RECURSIVE varint_encode(_)
varint_encode(n) ==
    IF n < 128 THEN <<n>> ELSE <<(n % 128) + 128>> \o varint_encode(n \div 128)

NoItem == [kind |-> "None"]
Item(m) == [kind |-> "Some", item |-> m]
Failed(error) == [kind |-> "Err", error |-> error]

\* Mutant: the complete-payload test is made before the size test.
decode_checks_size_last(max, s) ==
    LET v == varint_decode(s) IN
    IF v.status = "Insufficient"
    THEN [result |-> NoItem, src |-> s]
    ELSE IF v.status # "Ok"
    THEN [result |-> Failed("Failed to decode length"), src |-> s]
    ELSE IF Len(s) < v.used + v.value
    THEN [result |-> NoItem, src |-> s]
    ELSE IF v.value > max
    THEN [result |-> Failed("Received data size exceeds maximum"), src |-> s]
    ELSE LET frame == SubSeq(s, v.used + 1, v.used + v.value)
             rest == SubSeq(s, v.used + v.value + 1, Len(s))
             r == from_bytes(frame)
         IN  IF r.ok
             THEN [result |-> Item(r.value), src |-> rest]
             ELSE [result |-> Failed("Failed to decode message"), src |-> rest]

\* decode with the length prefix consumed as soon as it has been read.
decode_advances_before_complete(max, s) ==
    LET v == varint_decode(s) IN
    IF v.status = "Insufficient"
    THEN [result |-> NoItem, src |-> s]
    ELSE IF v.status # "Ok"
    THEN [result |-> Failed("Failed to decode length"), src |-> s]
    ELSE IF v.value > max
    THEN [result |-> Failed("Received data size exceeds maximum"), src |-> s]
    ELSE IF Len(s) < v.used + v.value
    THEN [result |-> NoItem, src |-> SubSeq(s, v.used + 1, Len(s))]
    ELSE LET frame == SubSeq(s, v.used + 1, v.used + v.value)
             rest == SubSeq(s, v.used + v.value + 1, Len(s))
             r == from_bytes(frame)
         IN  IF r.ok
             THEN [result |-> Item(r.value), src |-> rest]
             ELSE [result |-> Failed("Failed to decode message"), src |-> rest]

\* decode without src.advance(varint_len): the frame is split off the front
\* of the buffer with the length prefix still in it.
decode_skips_advance(max, s) ==
    LET v == varint_decode(s) IN
    IF v.status = "Insufficient"
    THEN [result |-> NoItem, src |-> s]
    ELSE IF v.status # "Ok"
    THEN [result |-> Failed("Failed to decode length"), src |-> s]
    ELSE IF v.value > max
    THEN [result |-> Failed("Received data size exceeds maximum"), src |-> s]
    ELSE IF Len(s) < v.used + v.value
    THEN [result |-> NoItem, src |-> s]
    ELSE LET frame == SubSeq(s, 1, v.value)
             rest == SubSeq(s, v.value + 1, Len(s))
             r == from_bytes(frame)
         IN  IF r.ok
             THEN [result |-> Item(r.value), src |-> rest]
             ELSE [result |-> Failed("Failed to decode message"), src |-> rest]

\* Decoder::decode: the value returned and the buffer it leaves.
decode(max, s) ==
    LET v == varint_decode(s) IN
    IF v.status = "Insufficient"
    THEN [result |-> NoItem, src |-> s]
    ELSE IF v.status # "Ok"
    THEN [result |-> Failed("Failed to decode length"), src |-> s]
    ELSE IF v.value > max
    THEN [result |-> Failed("Received data size exceeds maximum"), src |-> s]
    ELSE IF Len(s) < v.used + v.value
    THEN [result |-> NoItem, src |-> s]
    ELSE LET frame == SubSeq(s, v.used + 1, v.used + v.value)
             rest == SubSeq(s, v.used + v.value + 1, Len(s))
             r == from_bytes(frame)
         IN  IF r.ok
             THEN [result |-> Item(r.value), src |-> rest]
             ELSE [result |-> Failed("Failed to decode message"), src |-> rest]

\* Encoder::encode: dst after the call.
encode(item, dst) == dst \o varint_encode(Message_len(item)) \o to_bytes(item)

\* ------------------------------------------------- the codec's inputs

\* Largest short Broadcast payload, and the number of topic byte patterns
\* beyond the all-zero one.
MaxPayloadLen == 2
MaxTopicSeed == 1

\* A payload long enough for the frame length to need a two-byte prefix.
LongPayloadLen == 70

\* The two frame size limits the codec is configured with.
MaxSizeSmall == 3
MaxSizeLarge == 200

\* Longest raw payload handed to from_bytes, and longest run of frames.
MaxRawLen == 3
MaxBatch == 3

TopicBytes(n, seed) == [i \in 1..n |-> (seed * (96 + i)) % 256]
PayloadBytes(n) == [i \in 1..n |-> (85 * i) % 256]

Topics == {Topic_new(TopicBytes(n, seed)) : n \in 0..MAX_TOPIC_LENGTH, seed \in 0..MaxTopicSeed}

Messages ==
    {Subscribe(t) : t \in Topics} \cup {Unsubscribe(t) : t \in Topics}
        \cup {Broadcast(t, PayloadBytes(n)) : t \in Topics,
                                              n \in (0..MaxPayloadLen) \cup {LongPayloadLen}}

\* Payloads as a peer may send them: every byte string of up to MaxRawLen
\* bytes over header bytes with topic lengths 0, 1, 2 and 63 and every type
\* code.
RawBytes == {0, 1, 2, 3, 4, 5, 6, 7, 8, 9, 10, 11, 252, 255}
RawPayloads == UNION {[1..n -> RawBytes] : n \in 0..MaxRawLen}

\* Runs of up to MaxBatch messages written back to back on one stream.
BatchMessages ==
    { Subscribe(Topic_new(TopicBytes(1, 1))),
      Unsubscribe(Topic_new(TopicBytes(63, 1))),
      Broadcast(Topic_new(<<>>), <<>>),
      Broadcast(Topic_new(TopicBytes(2, 1)), PayloadBytes(MaxPayloadLen)) }
Batches == UNION {[1..n -> BatchMessages] : n \in 2..MaxBatch}

\* Byte streams no encoder of this crate produces.
HostileWires ==
    { <<128, 1, 5, 97>>,                 \* declares 128 bytes
      <<172, 2, 5, 97>>,                 \* declares 300 bytes
      <<200, 3>>,                        \* declares 456 bytes, sends none
      <<81>>,                            \* declares 81 bytes, sends none
      <<4, 0, 0, 0>>,                    \* declares 4 bytes, sends 3
      <<1, 0, 100>>,                     \* a frame, then 100 bytes declared
      <<131, 0>>,                        \* a length that is not minimal
      [i \in 1..10 |-> 128],             \* a length of more than ten bytes
      <<1, 3>>,                          \* type code 11
      <<4, 7, 97, 98, 99>>,              \* type code 11 with a topic
      <<0, 1, 0>>,                       \* an empty frame
      <<1, 4>>,                          \* a topic longer than the frame
      <<1, 0, 2, 6, 97, 3, 5, 98, 99>> } \* three well-formed frames

NotYet == [kind |-> "none"]

\* ------------------------------------------------- the codec's pipeline

CodecIdle ==
    /\ max_size = MaxSizeLarge
    /\ original = Subscribe(Topic_new(<<>>))
    /\ bytes = <<>>
    /\ parsed = NotYet
    /\ wire = <<>>
    /\ src = <<>>
    /\ decoded = NotYet
    /\ batch = <<>>
    /\ received = <<>>
    /\ cpc = "off"

CodecInit ==
    /\ max_size \in {MaxSizeSmall, MaxSizeLarge}
    /\ \/ /\ original \in Messages
          /\ bytes = <<>> /\ wire = <<>> /\ batch = <<>> /\ cpc = "message"
       \/ /\ original = Subscribe(Topic_new(<<>>))
          /\ bytes \in RawPayloads /\ wire = <<>> /\ batch = <<>> /\ cpc = "raw"
       \/ /\ original = Subscribe(Topic_new(<<>>))
          /\ bytes = <<>> /\ wire \in HostileWires /\ batch = <<>> /\ cpc = "wire"
       \/ /\ original = Subscribe(Topic_new(<<>>))
          /\ bytes = <<>> /\ wire = <<>> /\ batch \in Batches /\ cpc = "batch"
    /\ parsed = NotYet
    /\ src = <<>>
    /\ decoded = NotYet
    /\ received = <<>>

ToBytes ==
    /\ cpc = "message"
    /\ bytes' = to_bytes(original)
    /\ cpc' = "bytes"
    /\ UNCHANGED <<max_size, original, parsed, wire, src, decoded, batch, received, hvars>>

\* from_bytes is applied to the serialised message, or to a raw payload.
FromBytes ==
    /\ cpc \in {"bytes", "raw"}
    /\ parsed' = from_bytes(bytes)
    /\ cpc' = (IF cpc = "raw" THEN "raw_parsed" ELSE "parsed")
    /\ UNCHANGED <<max_size, original, bytes, wire, src, decoded, batch, received, hvars>>

Encode ==
    /\ cpc = "parsed"
    /\ wire' = encode(original, wire)
    /\ batch' = <<original>>
    /\ cpc' = "wire"
    /\ UNCHANGED <<max_size, original, bytes, parsed, src, decoded, received, hvars>>

\* encode called once for each message of the run, on the same output buffer.
RECURSIVE EncodeAll(_, _)
EncodeAll(items, dst) ==
    IF items = <<>> THEN dst ELSE EncodeAll(Tail(items), encode(Head(items), dst))

EncodeBatch ==
    /\ cpc = "batch"
    /\ wire' = EncodeAll(batch, wire)
    /\ cpc' = "wire"
    /\ UNCHANGED <<max_size, original, bytes, parsed, src, decoded, batch, received, hvars>>

\* The transport delivers the next byte, or all that is left, into the read
\* buffer.  A stream whose decode failed is read no further.
Feed ==
    /\ cpc = "wire"
    /\ wire # <<>>
    /\ decoded.kind # "Err"
    /\ \E k \in {1, Len(wire)} :
          /\ src' = src \o SubSeq(wire, 1, k)
          /\ wire' = SubSeq(wire, k + 1, Len(wire))
    /\ UNCHANGED <<max_size, original, bytes, parsed, decoded, batch, received, cpc, hvars>>

Decode ==
    /\ cpc = "wire"
    /\ decoded.kind # "Err"
    /\ LET r == decode(max_size, src) IN
          /\ decoded' = r.result
          /\ src' = r.src
          /\ received' = (IF r.result.kind = "Some"
                          THEN Append(received, r.result.item) ELSE received)
    /\ UNCHANGED <<max_size, original, bytes, parsed, wire, batch, cpc, hvars>>

CodecNext ==
    \/ ToBytes
    \/ FromBytes
    \/ Encode
    \/ EncodeBatch
    \/ Feed
    \/ Decode

CodecSpecInit == HandlerInit /\ CodecInit

CodecSpec == CodecSpecInit /\ [][CodecNext]_vars

\* ------------------------------------------------------------ the session

Init == HandlerInit /\ CodecIdle

Next ==
    \/ Send
    \/ FullyNegotiatedInbound
    \/ FullyNegotiatedOutbound
    \/ DialUpgradeError
    \/ PollRequest
    \/ PollEnter
    \/ InboundReplace
    \/ InboundWaitingInput
    \/ InboundClosing
    \/ InboundNone
    \/ OutboundReplace
    \/ OutboundWaitingOutput
    \/ OutboundPendingSend
    \/ OutboundPendingFlush
    \/ OutboundNone

Spec == Init /\ [][Next]_vars

\* ------------------------------------------------------------------ types

\* ------------------------------------------------ a session on a live stream

\* The outbound stream never fails: poll_ready and poll_flush answer
\* Ready(Ok) or Pending, start_send answers Ok.
LivePendingSend == PendingSendStep({"Ok", "Pending"}, {"Ok"})
LivePendingFlush == PendingFlushStep({"Ok", "Pending"})

\* The steps between the start of a poll invocation and its return.
PollRuns ==
    \/ InboundReplace
    \/ InboundWaitingInput
    \/ InboundClosing
    \/ InboundNone
    \/ OutboundReplace
    \/ OutboundWaitingOutput
    \/ LivePendingSend
    \/ LivePendingFlush
    \/ OutboundNone

\* Every negotiation request is answered with a stream, never with an error;
\* the inbound stream behaves in any way.
LiveNext ==
    \/ Send
    \/ FullyNegotiatedInbound
    \/ FullyNegotiatedOutbound
    \/ PollRequest
    \/ PollEnter
    \/ PollRuns

\* The scheduler keeps invoking poll and every invocation runs to its
\* return; a requested stream is eventually negotiated; a stream waited on
\* for write-readiness or for a flush eventually answers Ready(Ok).
LiveSpec ==
    /\ Init
    /\ [][LiveNext]_vars
    /\ WF_vars(PollRequest \/ PollEnter)
    /\ WF_vars(PollRuns)
    /\ SF_vars(FullyNegotiatedOutbound)
    /\ SF_vars(PendingSendStep({"Ok"}, {"Ok"}))
    /\ SF_vars(PendingFlushStep({"Ok"}))

SubstreamTags == {"None", "Poisoned", "WaitingInput", "Closing", "WaitingOutput",
                  "PendingSend", "PendingFlush"}

TypeOK ==
    /\ inbound_substream \in {None, Poisoned, WaitingInput, Closing}
    /\ outbound_substream.tag \in {"None", "Poisoned", "WaitingOutput",
                                   "PendingSend", "PendingFlush"}
    /\ establishing_outbound_substream \in BOOLEAN
    /\ pending_messages \in Seq(1..MaxSends)
    /\ pc \in {"idle", "inbound_loop", "inbound_match", "outbound_loop", "outbound_match"}
    /\ taken.tag \in SubstreamTags
    /\ poll_result \in {"none", "Pending", "OutboundSubstreamRequest",
                        "NotifyBehaviour_Rx", "NotifyBehaviour_Tx"}
    /\ sent \in 0..MaxSends

\* ----------------------------------------------------------------- helpers

Range(s) == {s[i] : i \in DOMAIN s}

NoDuplicates(s) == \A i, j \in DOMAIN s : i # j => s[i] # s[j]

StrictlyIncreasing(s) == \A i, j \in DOMAIN s : i < j => s[i] < s[j]

\* The messages the outbound substream state still holds.
InFlight(state) == IF state.tag = "PendingSend" THEN {state.message} ELSE {}

\* ---------------------------------------------------------- handler claims

\* C1: FIFO outbound ordering. Messages are named by their Send order, so the
\* sequence handed to start_send is a subsequence of the Send-ed sequence in
\* the same relative order iff it is strictly increasing and within 1..sent;
\* the same holds of the messages start_send accepted.
C1_FifoOutboundOrder ==
    /\ StrictlyIncreasing(handed)
    /\ Range(handed) \subseteq 1..sent
    /\ StrictlyIncreasing(written)
    /\ Range(written) \subseteq Range(handed)

\* Three messages were Send-ed and all three handed to start_send.
C1_Witness == sent = MaxSends /\ Len(handed) = MaxSends /\ MaxSends >= 2

\* C2: single establishment in flight. While a negotiation request is not yet
\* answered no step emits another one, so at most one is ever outstanding.
C2_SingleEstablishment ==
    [][/\ requests_outstanding > 0 => requests_total' = requests_total
       /\ requests_outstanding' <= 1]_vars

\* A request is outstanding, further Sends arrived, and a later poll
\* invocation ran to its end without emitting a second request.
C2_Witness ==
    /\ requests_outstanding = 1
    /\ Len(pending_messages) >= 2
    /\ pc = "idle"
    /\ poll_result = "Pending"

\* C3: every successful send+flush is acknowledged by exactly one
\* HandlerEvent::Tx, and Tx is emitted for nothing else: between two poll
\* invocations the number of Tx events equals the number of completed flushes.
C3_MessageSentAck == pc = "idle" => tx_events = flushed

\* C4: the establishing flag is never reset, so the session emits at most one
\* negotiation request in its lifetime; none follows the first even when the
\* outbound substream is gone and messages are queued.
C4_FlagNeverReset ==
    [][/\ establishing_outbound_substream => establishing_outbound_substream'
       /\ establishing_outbound_substream => requests_total' = requests_total
       /\ requests_total' <= 1]_vars

\* The outbound substream was torn down by an I/O error, messages are queued,
\* and a later poll invocation is past its establishment check without having
\* requested a stream (it is in the `None` arm of the outbound loop).
C4_Witness ==
    /\ lost # <<>>
    /\ pending_messages # <<>>
    /\ establishing_outbound_substream
    /\ requests_outstanding = 0
    /\ pc = "outbound_match"
    /\ taken = None

\* C5: an outbound-negotiation-failed event empties the pending queue whatever
\* it held and leaves the substream states and the flag alone; a discarded
\* message is in no queue or substream and is never handed to start_send.
C5_DialErrorDrainsQueue ==
    [][/\ DialUpgradeError =>
            /\ pending_messages' = <<>>
            /\ dropped' = dropped \o pending_messages
            /\ UNCHANGED <<inbound_substream, outbound_substream,
                           establishing_outbound_substream>>
       /\ \A m \in Range(dropped') :
            /\ m \notin Range(handed')
            /\ m \notin Range(pending_messages')
            /\ m \notin InFlight(outbound_substream') \cup InFlight(taken')]_vars

\* A negotiation failure discarded at least two queued messages.
C5_Witness == Len(dropped) >= 2 /\ pending_messages = <<>>

\* The step is an outbound arm whose poll_ready, start_send or poll_flush failed.
OutboundIoFailure ==
    /\ pc = "outbound_match"
    /\ taken.tag \in {"PendingSend", "PendingFlush"}
    /\ last_io'.op \in {"poll_ready", "start_send", "poll_flush"}
    /\ last_io'.res = "Err"

\* C6: a failed write-readiness check, write or flush makes the outbound
\* substream absent, keeps the pending queue as it is, leaves the inbound
\* substream alone, and the message in flight is neither requeued nor ever
\* handed to start_send again.
C6_OutboundFailureLosesInFlight ==
    [][/\ OutboundIoFailure =>
            /\ outbound_substream' = None
            /\ pending_messages' = pending_messages
            /\ inbound_substream' = inbound_substream
            /\ InFlight(taken) \cap Range(pending_messages') = {}
            /\ taken.tag = "PendingFlush" => written # <<>> /\
                    written[Len(written)] \notin Range(pending_messages')
       /\ NoDuplicates(handed')
       /\ \A m \in Range(lost) : Range(handed') \ Range(handed) # {m}
       /\ Range(lost') \cap Range(pending_messages') = {}]_vars

\* An outbound operation failed, the substream is gone, and the queue still
\* holds messages.
C6_Witness ==
    /\ last_io.op \in {"poll_ready", "start_send", "poll_flush"}
    /\ last_io.res = "Err"
    /\ outbound_substream = None
    /\ pending_messages # <<>>
    /\ pc = "idle"

\* C7: a decode error or EOF on the inbound substream moves it to Closing, a
\* completed close (Ok or Err) makes it absent, a pending close keeps it
\* Closing; these steps never touch the outbound substream, the queue or the
\* flag, never end the invocation and never panic; poll only ever returns
\* Pending, a negotiation request or a received message.
C7_InboundErrorsStayLocal ==
    [][/\ (pc = "inbound_match" /\ taken \in {WaitingInput, Closing}) =>
            /\ UNCHANGED <<outbound_substream, pending_messages,
                           establishing_outbound_substream, panicked>>
            /\ (last_io' = Io("poll_next", "Err") \/ last_io' = Io("poll_next", "Eof"))
                    => inbound_substream' = Closing /\ pc' # "idle"
            /\ (last_io' = Io("poll_close", "Ok") \/ last_io' = Io("poll_close", "Err"))
                    => inbound_substream' = None /\ pc' # "idle"
            /\ last_io' = Io("poll_close", "Pending")
                    => inbound_substream' = Closing /\ pc' # "idle"
       /\ poll_result' \in {"none", "Pending", "OutboundSubstreamRequest",
                            "NotifyBehaviour_Rx"}]_vars

\* The inbound substream hit EOF, its close failed and it was dropped, while
\* the outbound substream is alive with a message queued.
C7_Witness ==
    /\ last_io = Io("poll_close", "Err")
    /\ inbound_substream = None
    /\ outbound_substream = WaitingOutput
    /\ pending_messages # <<>>
    /\ pc = "outbound_loop"

\* C8: with every negotiation request answered exactly once and no answer
\* unsolicited, an outbound-stream-negotiated event finds the outbound
\* substream absent (the assertion holds) and leaves it WaitingOutput.
C8_NoDoubleOutbound ==
    [][/\ FullyNegotiatedOutbound =>
            /\ outbound_substream = None
            /\ outbound_substream' = WaitingOutput
       /\ (pc' = "idle" /\ requests_outstanding' > 0) => outbound_substream' = None
       /\ ~panicked']_vars

\* The one negotiation request was answered with a stream.
C8_Witness ==
    /\ outbound_substream = WaitingOutput
    /\ requests_total = 1
    /\ requests_outstanding = 0
    /\ pc = "idle"

\* ---------------------------------------------------------- codec claims

\* C9: Message round trip. For every message with a topic of 0..63 bytes
\* (any payload for Broadcast, the empty one included) from_bytes(to_bytes(m))
\* succeeds and gives back m.
C9_MessageRoundTrip ==
    (cpc \in {"parsed", "wire"} /\ parsed # NotYet /\ original.topic.len <= 63) =>
        parsed = Ok(original)

\* A Broadcast with a 63-byte topic and an empty payload went through
\* to_bytes and from_bytes.
C9_Witness ==
    /\ cpc = "parsed"
    /\ original.type = "Broadcast"
    /\ original.topic.len = 63
    /\ original.payload = <<>>
    /\ parsed.ok

\* C10: size bound enforcement. Whenever the read buffer starts with a complete
\* length prefix that declares more than max_size bytes, decode returns an
\* error (not `None`, not a message) however many payload bytes the buffer
\* holds, none included, and consumes nothing.
C10_SizeBoundEnforced ==
    LET v == varint_decode(src) IN
    (cpc = "wire" /\ v.status = "Ok" /\ v.value > max_size) =>
        /\ decode(max_size, src).result.kind = "Err"
        /\ decode(max_size, src).src = src

\* decode failed on a buffer that holds an oversize length prefix and not one
\* byte of payload.
C10_Witness ==
    LET v == varint_decode(src) IN
    /\ cpc = "wire"
    /\ v.status = "Ok"
    /\ v.value > max_size
    /\ Len(src) = v.used
    /\ decoded.kind = "Err"

\* ---------------------------------------------------------------------------
\* C11  Partial input.
\* ---------------------------------------------------------------------------

\* The frame encode writes for the message of this run, and the part of it
\* that has been delivered and not yet decoded.
Frame == encode(original, <<>>)
OneFrameRun == cpc = "wire" /\ parsed # NotYet
WithinLimit == Message_len(original) <= max_size

\* What the claim says of a run that delivers one frame in chunks: no
\* delivered byte is lost while the frame is incomplete, decode answers "no
\* item yet" on every strict prefix and leaves it in place, and the item
\* finally returned is the one the whole frame yields.
PartialInput ==
    /\ decoded.kind # "Err"
    /\ received = <<>> => src \o wire = Frame
    /\ (received = <<>> /\ wire # <<>>) =>
            decode(max_size, src) = [result |-> NoItem, src |-> src]
    /\ received # <<>> =>
            /\ received = <<decode(max_size, Frame).result.item>>
            /\ src = <<>> /\ wire = <<>>

\* C11 as stated: for every buffer that is a strict prefix of a complete
\* frame, decode returns "no item yet" and leaves the buffer unchanged, and
\* once the rest has arrived, in whatever chunks, decode returns the message
\* of the whole frame.
C11_PartialInputAnyFrame == OneFrameRun => PartialInput

\* C11 amended: the same, for every strict prefix of a frame whose declared
\* length is at most max_size.  (A prefix that already holds the length of
\* an oversize frame is rejected with an error, as the size bound requires.)
C11_PartialInput == (OneFrameRun /\ WithinLimit) => PartialInput

\* A frame with a two-byte length has arrived up to its first payload bytes,
\* decode has answered "no item yet", and the rest is still to come.
C11_Witness ==
    /\ OneFrameRun /\ WithinLimit
    /\ Len(varint_encode(Message_len(original))) = 2
    /\ decoded = NoItem
    /\ Len(src) >= 3
    /\ wire # <<>>

\* The chunked delivery has completed and the message was returned.
C11_Completed ==
    /\ OneFrameRun /\ WithinLimit
    /\ Len(varint_encode(Message_len(original))) = 2
    /\ received = <<original>>

\* ---------------------------------------------------------------------------
\* C12  Message decode rejection.
\* ---------------------------------------------------------------------------

\* The three grounds for rejecting a payload.
Rejected(b) ==
    \/ b = <<>>
    \/ b # <<>> /\ Len(b) < 1 + (b[1] \div 4)
    \/ b # <<>> /\ b[1] % 4 = 3

\* The message an accepted payload stands for.
Accepted(b, m) ==
    LET topic_length == b[1] \div 4 IN
    /\ m.type = (CASE b[1] % 4 = 0 -> "Subscribe"
                   [] b[1] % 4 = 1 -> "Broadcast"
                   [] b[1] % 4 = 2 -> "Unsubscribe")
    /\ m.topic.len = topic_length
    /\ as_ref(m.topic) = [i \in 1..topic_length |-> b[i + 1]]
    /\ m.type = "Broadcast" =>
            m.payload = [i \in 1..(Len(b) - topic_length - 1) |-> b[i + topic_length + 1]]

\* C12: from_bytes returns an error exactly when the payload is empty, or
\* shorter than 1 + topic_length, or its two low header bits are 11; every
\* other payload yields the message with the topic taken from the bytes after
\* the header and, for Broadcast, the payload taken from all bytes after the
\* topic.
C12_FromBytesRejection ==
    cpc \in {"parsed", "raw_parsed"} =>
        /\ parsed.ok <=> ~Rejected(bytes)
        /\ parsed.ok => Accepted(bytes, parsed.value)

\* The one-byte payload <<4>> (topic length 1, no topic byte) was rejected,
\* as in tests::test_invalid_message.
C12_Witness == cpc = "raw_parsed" /\ bytes = <<4>> /\ ~parsed.ok

\* A raw Broadcast payload with a topic byte and a payload byte was accepted.
C12_AcceptedWitness ==
    cpc = "raw_parsed" /\ bytes = <<5, 255, 9>> /\ parsed.ok
        /\ parsed.value.payload = <<9>>

\* ---------------------------------------------------------------------------
\* C17  A 64-byte topic overflows the header.
\* ---------------------------------------------------------------------------

\* The topic-length field of the serialised message.
TopicLengthField == bytes[1] \div 4

\* C17: Topic::new accepts a 64-byte topic; the header byte of a message
\* with such a topic carries topic length 0, and from_bytes(to_bytes(m)) is
\* not m; the field equals the topic's length exactly for lengths 0..63.
C17_TopicLengthOverflow ==
    (cpc \in {"parsed", "wire"} /\ parsed # NotYet) =>
        /\ original.topic.len \in 0..MAX_TOPIC_LENGTH
        /\ (TopicLengthField = original.topic.len) <=> (original.topic.len <= 63)
        /\ original.topic.len = 64 =>
                /\ TopicLengthField = 0
                /\ parsed # Ok(original)
                /\ parsed.ok => parsed.value.topic.len = 0

\* A Broadcast with a 64-byte topic was serialised and parsed back as a
\* message with an empty topic and the topic bytes in front of the payload.
C17_Witness ==
    /\ cpc = "parsed"
    /\ original.type = "Broadcast" /\ original.topic.len = 64
    /\ Len(original.payload) = MaxPayloadLen
    /\ parsed.ok /\ parsed.value.type = "Broadcast"
    /\ parsed.value.topic.len = 0
    /\ parsed.value.payload = as_ref(original.topic) \o original.payload

\* ---------------------------------------------------------------------------
\* C18  Exact frame consumption.
\* ---------------------------------------------------------------------------

\* The messages of the run that decode has not returned yet.
FramesLeft == SubSeq(batch, Len(received) + 1, Len(batch))

\* Every message of the run has a topic the header can carry and a frame
\* within the size limit.
AllWithinLimit ==
    \A i \in 1..Len(batch) :
        batch[i].topic.len <= 63 /\ Message_len(batch[i]) <= max_size

\* The buffer starts with a complete frame within the size limit.
CompleteFrameAhead ==
    LET v == varint_decode(src) IN
    v.status = "Ok" /\ v.value <= max_size /\ Len(src) >= v.used + v.value

\* C18: when the buffer starts with a complete frame within the size limit,
\* decode takes exactly the length prefix and the declared number of payload
\* bytes off its front and leaves the bytes after them as they are; repeated
\* decode calls on the concatenated encodings of m1..mn (topic lengths 0..63)
\* return m1..mn in order, and then "no item yet" on an empty buffer.
C18_ExactFrameConsumption ==
    /\ (cpc = "wire" /\ CompleteFrameAhead) =>
            LET v == varint_decode(src)
                after == decode(max_size, src).src
            IN  /\ Len(after) = Len(src) - (v.used + v.value)
                /\ SubSeq(src, 1, v.used + v.value) \o after = src
    /\ (cpc = "wire" /\ batch # <<>> /\ AllWithinLimit) =>
            /\ decoded.kind # "Err"
            /\ Len(received) <= Len(batch)
            /\ received = SubSeq(batch, 1, Len(received))
            /\ src \o wire = EncodeAll(FramesLeft, <<>>)
            /\ received = batch =>
                    decode(max_size, src) = [result |-> NoItem, src |-> <<>>]

\* MaxBatch frames delivered, every message returned in order, and a further
\* decode answered "no item yet".
C18_Witness ==
    /\ cpc = "wire" /\ AllWithinLimit
    /\ Len(batch) = MaxBatch
    /\ received = batch
    /\ decoded = NoItem
    /\ src = <<>> /\ wire = <<>>

\* ---------------------------------------------------------------------------
\* C13  Registered interest on suspension.
\* ---------------------------------------------------------------------------

\* A step on which a poll invocation ends with Poll::Pending.
PollReturnsPending == pc # "idle" /\ pc' = "idle" /\ poll_result' = "Pending"

\* The inbound substream is absent, or the last operation this invocation
\* attempted on it reported Poll::Pending.
InboundParked == inbound_substream = None \/ in_io.res = "Pending"

\* The outbound substream is absent, or idle with nothing queued, or the last
\* operation this invocation attempted on it reported Poll::Pending.
OutboundParked ==
    \/ outbound_substream = None
    \/ outbound_substream = WaitingOutput /\ pending_messages = <<>>
    \/ out_io.res = "Pending"

\* C13: whenever poll returns Poll::Pending, each substream is absent, or
\* idle with nothing to do, or its last operation attempted in that same
\* invocation reported not-ready; an inbound substream that entered Closing
\* on a decode error has had its close attempted by then.
C13_RegisteredInterest ==
    [][PollReturnsPending => (InboundParked' /\ OutboundParked')]_vars

\* ---------------------------------------------------------------------------
\* C14  Lazy outbound establishment.
\* ---------------------------------------------------------------------------

\* A step on which poll returns an outbound-negotiation request.
EmitsRequest ==
    /\ requests_total' = requests_total + 1
    /\ poll_result' = "OutboundSubstreamRequest"
    /\ pc' = "idle"

\* The queue is non-empty, no outbound substream is held and no
\* establishment is in flight.
QueueNeedsStream ==
    /\ pending_messages # <<>>
    /\ outbound_substream = None
    /\ ~establishing_outbound_substream

\* C14: a poll invocation emits an outbound-negotiation request if and only
\* if, at its start, the queue is non-empty, the outbound substream is absent
\* and the establishing flag is false; a session on which Send was never
\* called never requests an outbound stream.
C14_LazyEstablishment ==
    [][ /\ (PollRequest \/ PollEnter) => (EmitsRequest <=> QueueNeedsStream)
        /\ requests_total' # requests_total =>
                (pc = "idle" /\ EmitsRequest /\ QueueNeedsStream)
        /\ sent' = 0 => requests_total' = 0 ]_vars

\* A request was emitted for a queued message on a session that had already
\* received a message.
C14_Witness ==
    /\ poll_result = "OutboundSubstreamRequest"
    /\ requests_total = 1
    /\ establishing_outbound_substream
    /\ pending_messages # <<>>
    /\ last_io = Io("poll_next", "Message")

\* A session that only receives: a message was handed up, nothing requested.
C14_ReceiveOnlyWitness ==
    /\ sent = 0
    /\ poll_result = "NotifyBehaviour_Rx"
    /\ requests_total = 0

\* ---------------------------------------------------------------------------
\* C15  One message in flight, flushed before the next.
\* ---------------------------------------------------------------------------

\* The outbound substream state, also while a poll arm holds it.
OutboundState ==
    IF outbound_substream = Poisoned THEN taken ELSE outbound_substream

\* A step that takes the front message off the queue (and does not drain it
\* into the dropped messages).
Popped ==
    /\ pending_messages # <<>>
    /\ pending_messages' = Tail(pending_messages)
    /\ dropped' = dropped

\* C15: a message is popped from the queue only while the outbound
\* substream is WaitingOutput, never while it is PendingSend, PendingFlush or
\* absent; the popped message becomes the one in flight; and a message is
\* handed to the stream's write only when every message handed before it was
\* written successfully and flushed successfully.
C15_OneInFlight ==
    [][ /\ Popped =>
            /\ OutboundState = WaitingOutput
            /\ outbound_substream' = PendingSend(Head(pending_messages))
            /\ written = handed /\ flushed = Len(handed)
        /\ OutboundState.tag \in {"PendingSend", "PendingFlush", "None"} => ~Popped
        /\ handed' # handed =>
            /\ written = handed /\ flushed = Len(handed)
            /\ OutboundState.tag = "PendingSend" ]_vars

\* Message 1 was flushed and message 2 picked up within one poll invocation.
C15_Witness ==
    /\ pc = "outbound_loop"
    /\ out_io = Io("poll_flush", "Ok")
    /\ outbound_substream = PendingSend(2)
    /\ flushed = 1

\* ---------------------------------------------------------------------------
\* C16  Eventual delivery on a live stream.
\* ---------------------------------------------------------------------------

\* C16: on a live stream (negotiation succeeds, no outbound operation fails,
\* the stream is eventually ready, poll keeps being invoked) every Send-ed
\* message is eventually written and flushed and the queue eventually
\* becomes empty, whatever the inbound substream does.
C16_EventualDelivery ==
    /\ \A m \in 1..MaxSends :
            (sent >= m) ~> (m \in Range(written) /\ flushed >= m)
    /\ (pending_messages # <<>>) ~> (pending_messages = <<>>)

\* What does hold on a live stream: the messages are delivered in every
\* behaviour in which poll reaches its outbound loop again and again.
C16_DeliveryWhenDriven == ([]<>(pc = "outbound_loop")) => C16_EventualDelivery

\* ---------------------------------------------------------------------------
\* C19  Inbound stream replacement.
\* ---------------------------------------------------------------------------

\* C19: an inbound-stream-negotiated event sets the inbound substream to
\* WaitingInput whatever it was before (absent, WaitingInput or Closing) and
\* leaves the outbound substream, the queue and the establishing flag as
\* they were.
C19_InboundReplacement ==
    [][FullyNegotiatedInbound =>
          /\ inbound_substream \in {None, WaitingInput, Closing}
          /\ inbound_substream' = WaitingInput
          /\ UNCHANGED <<outbound_substream, pending_messages,
                         establishing_outbound_substream>>]_vars

\* The last poll left the inbound substream in Closing with its close
\* pending; a new inbound stream has replaced it, while a message is in
\* flight on the outbound substream.
C19_Witness ==
    /\ pc = "idle"
    /\ in_io = Io("poll_close", "Pending")
    /\ inbound_substream = WaitingInput
    /\ outbound_substream.tag = "PendingSend"
    /\ pending_messages # <<>>

\* ---------------------------------------------------------------------------
\* C20  No message is duplicated or invented.
\* ---------------------------------------------------------------------------

\* How often m occurs in a sequence, and whether a substream state holds it.
Count(seq, m) == Cardinality({i \in DOMAIN seq : seq[i] = m})
Holds(state, m) == IF m \in InFlight(state) THEN 1 ELSE 0

\* The number of places message m is in: the queue, in flight in
\* PendingSend (held by the session or by the running poll arm), accepted by
\* the stream's write, discarded by a negotiation failure, lost by a failed
\* poll_ready or start_send.
Places(m) ==
    Count(pending_messages, m) + Holds(outbound_substream, m) + Holds(taken, m)
        + Count(written, m) + Count(dropped, m) + Count(lost, m)

\* C20: every Send-ed message is in exactly one place, a message not yet
\* Send-ed is in none; no message is handed to the stream's write twice and
\* none is handed to it that was not Send-ed.
C20_NoDuplicationNoInvention ==
    /\ \A m \in 1..(MaxSends + 1) : Places(m) = (IF m <= sent THEN 1 ELSE 0)
    /\ NoDuplicates(handed)
    /\ Range(handed) \subseteq 1..sent
    /\ Range(written) \subseteq Range(handed)

\* All messages Send-ed: one written, one lost by a failed write, one still
\* queued behind the lost stream.
C20_Witness ==
    /\ sent = MaxSends
    /\ written # <<>>
    /\ lost # <<>>
    /\ pending_messages # <<>>
    /\ outbound_substream = None

\* ---------------------------------------------------------------------------
\* C21  The Poisoned placeholder is never observable.
\* ---------------------------------------------------------------------------

\* C21: between poll invocations, that is at every return of poll (the
\* early returns with a negotiation request or a received message included)
\* and whenever an event handler is entered, neither substream state is
\* Poisoned; inside poll only the substream being matched is Poisoned, and
\* the state moved out of it never is, so neither unreachable!() branch runs.
C21_PoisonedNeverObservable ==
    /\ pc = "idle" =>
            inbound_substream # Poisoned /\ outbound_substream # Poisoned
    /\ pc \in {"inbound_loop", "inbound_match"} => outbound_substream # Poisoned
    /\ pc \in {"outbound_loop", "outbound_match"} => inbound_substream # Poisoned
    /\ pc \in {"inbound_loop", "outbound_loop"} =>
            inbound_substream # Poisoned /\ outbound_substream # Poisoned
    /\ pc \in {"inbound_match", "outbound_match"} => taken # Poisoned
    /\ ~panicked

\* poll has returned early with a received message while a message is in
\* flight on the outbound substream: both states are back in place.
C21_Witness ==
    /\ pc = "idle"
    /\ poll_result = "NotifyBehaviour_Rx"
    /\ in_io = Io("poll_next", "Message")
    /\ inbound_substream = WaitingInput
    /\ outbound_substream.tag = "PendingSend"

\* poll has returned early with a negotiation request, an inbound substream
\* being held.
C21_RequestWitness ==
    /\ pc = "idle"
    /\ poll_result = "OutboundSubstreamRequest"
    /\ in_io = NoIo
    /\ inbound_substream = Closing

====
